---- MODULE Spec2Model ----
(***************************************************************************)
(* synth-core (src/synth-core/src/lib.rs): the C boundary of the document  *)
(* text extractor.  extract_text walks a decoded .docx tree and returns    *)
(* its text as a C string, kiro_chat returns the ANSI-stripped standard    *)
(* output of an external command, free_string releases a returned string. *)
(*                                                                         *)
(* A string is a sequence of characters; a character is a one-symbol       *)
(* TLA+ string.  A pointer is NULL or an address of the heap of C strings  *)
(* handed to the caller.                                                   *)
(***************************************************************************)
EXTENDS Integers, Sequences, FiniteSets, TLC

VARIABLES pc, doc, idx, text, out, ret, last, heap

vars == <<pc, doc, idx, text, out, ret, last, heap>>

-----------------------------------------------------------------------------
(* Bounds of the model.                                                    *)

\* Largest number of nodes (document, paragraph and run children together)
\* of a decoded document.
MaxNodes == 7

\* Longest standard output of the external process, in bytes.
MaxOutLen == 4

\* Number of heap addresses, so of result strings alive at one time.
MaxAddr == 2

-----------------------------------------------------------------------------
(* Characters.                                                             *)

LF == "LF"

NUL == "NUL"

ESC == "ESC"

\* A byte of the process output that is not valid UTF-8, and what
\* String::from_utf8_lossy puts in its place.
BAD == "xFF"

REPLACEMENT == "U+FFFD"

\* The characters of the model for which char::is_ascii_alphabetic holds.
AsciiAlphabetic == {"a", "b", "m"}

IsAsciiAlphabetic(c) == c \in AsciiAlphabetic

NULL == 0

Addr == 1..MaxAddr

Ptr == {NULL} \cup Addr

-----------------------------------------------------------------------------
(* The document tree of docx_rs, as far as extract_text looks at it.       *)

\* The string values a Text node carries in the model.
TextValues == {<<>>, <<"a">>, <<"b">>, <<LF>>, <<NUL>>}

RunChildren ==
    {[kind |-> "Text", text |-> t] : t \in TextValues}
        \cup {[kind |-> "Break", text |-> <<>>]}

\* The place of a run child in the shape of a document.
Slot == "slot"

\* The shapes of the runs with w nodes: the run and its w-1 children.
RunShapesOfWeight(w) ==
    {[kind |-> "Run", children |-> [i \in 1..(w - 1) |-> Slot]]}

ParagraphChildShapesOfWeight(w) ==
    (IF w = 1 THEN {[kind |-> "BookmarkStart", children |-> <<>>]} ELSE {})
        \cup RunShapesOfWeight(w)

\* The sequences of paragraph children of m nodes in all.
RECURSIVE ParagraphChildShapeSeqs(_)
ParagraphChildShapeSeqs(m) ==
    IF m = 0 THEN {<<>>}
    ELSE UNION {{<<c>> \o r : c \in ParagraphChildShapesOfWeight(w),
                              r \in ParagraphChildShapeSeqs(m - w)} : w \in 1..m}

DocumentChildShapesOfWeight(w) ==
    (IF w = 1 THEN {[kind |-> "Table", children |-> <<>>]} ELSE {})
        \cup {[kind |-> "Paragraph", children |-> s] :
                s \in ParagraphChildShapeSeqs(w - 1)}

\* The sequences of document children of m nodes in all.
RECURSIVE DocumentChildShapeSeqs(_)
DocumentChildShapeSeqs(m) ==
    IF m = 0 THEN {<<>>}
    ELSE UNION {{<<c>> \o r : c \in DocumentChildShapesOfWeight(w),
                              r \in DocumentChildShapeSeqs(m - w)} : w \in 1..m}

\* The shapes of doc.document.children of the documents of at most
\* MaxNodes nodes.
DocumentShapes == UNION {DocumentChildShapeSeqs(m) : m \in 0..MaxNodes}

\* The shapes of the documents of the call sequences of Spec.
SomeDocumentShapes ==
    { <<>>,
      <<[kind |-> "Paragraph", children |->
            <<[kind |-> "Run", children |-> <<Slot>>]>>]>> }

\* The number of run children of a paragraph's children, of a document.
RECURSIVE SlotsOfParagraph(_)
SlotsOfParagraph(pcs) ==
    IF pcs = <<>> THEN 0
    ELSE (IF Head(pcs).kind = "Run" THEN Len(Head(pcs).children) ELSE 0)
            + SlotsOfParagraph(Tail(pcs))

RECURSIVE Slots(_)
Slots(d) ==
    IF d = <<>> THEN 0
    ELSE (IF Head(d).kind = "Paragraph" THEN SlotsOfParagraph(Head(d).children) ELSE 0)
            + Slots(Tail(d))

\* The shape with its slots taken by the run children f, in order, from
\* the one after f[off].
RECURSIVE FillParagraph(_, _, _)
FillParagraph(pcs, f, off) ==
    IF pcs = <<>> THEN <<>>
    ELSE IF Head(pcs).kind = "Run"
        THEN <<[kind |-> "Run",
                children |-> [i \in 1..Len(Head(pcs).children) |-> f[off + i]]]>>
                \o FillParagraph(Tail(pcs), f, off + Len(Head(pcs).children))
        ELSE <<Head(pcs)>> \o FillParagraph(Tail(pcs), f, off)

RECURSIVE Fill(_, _, _)
Fill(d, f, off) ==
    IF d = <<>> THEN <<>>
    ELSE IF Head(d).kind = "Paragraph"
        THEN <<[kind |-> "Paragraph",
                children |-> FillParagraph(Head(d).children, f, off)]>>
                \o Fill(Tail(d), f, off + SlotsOfParagraph(Head(d).children))
        ELSE <<Head(d)>> \o Fill(Tail(d), f, off)

-----------------------------------------------------------------------------
(* extract_text: the traversal, lines 32-46.                               *)

\* VisitRunChildren with a Break taken for a line end.
RECURSIVE VisitRunChildrenBreak(_, _)
VisitRunChildrenBreak(t, rcs) ==
    IF rcs = <<>> THEN t
    ELSE VisitRunChildrenBreak(
            IF Head(rcs).kind = "Text" THEN t \o Head(rcs).text
            ELSE IF Head(rcs).kind = "Break" THEN Append(t, LF)
            ELSE t,
            Tail(rcs))

\* for rc in r.children: push the Text children's strings
RECURSIVE VisitRunChildren(_, _)
VisitRunChildren(t, rcs) ==
    IF rcs = <<>> THEN t
    ELSE VisitRunChildren(
            IF Head(rcs).kind = "Text" THEN t \o Head(rcs).text ELSE t,
            Tail(rcs))

\* VisitParagraphChildren with a space put after every run.
RECURSIVE VisitParagraphChildrenSpaced(_, _)
VisitParagraphChildrenSpaced(t, pcs) ==
    IF pcs = <<>> THEN t
    ELSE VisitParagraphChildrenSpaced(
            IF Head(pcs).kind = "Run"
                THEN Append(VisitRunChildren(t, Head(pcs).children), " ")
                ELSE t,
            Tail(pcs))

\* for pc in p.children: walk the Run children
RECURSIVE VisitParagraphChildren(_, _)
VisitParagraphChildren(t, pcs) ==
    IF pcs = <<>> THEN t
    ELSE VisitParagraphChildren(
            IF Head(pcs).kind = "Run"
                THEN VisitRunChildren(t, Head(pcs).children)
                ELSE t,
            Tail(pcs))

\* VisitDocumentChild with the newline between paragraphs and not after
\* each.
VisitDocumentChildSeparated(t, child) ==
    IF child.kind = "Paragraph"
        THEN VisitParagraphChildren(
                IF t = <<>> THEN t ELSE Append(t, LF), child.children)
        ELSE t

\* VisitDocumentChild with no line for a paragraph without text.
VisitDocumentChildSkipEmpty(t, child) ==
    IF child.kind = "Paragraph"
        THEN IF VisitParagraphChildren(t, child.children) = t
                THEN t
                ELSE Append(VisitParagraphChildren(t, child.children), LF)
        ELSE t

\* One iteration of for child in doc.document.children
VisitDocumentChild(t, child) ==
    IF child.kind = "Paragraph"
        THEN Append(VisitParagraphChildren(t, child.children), LF)
        ELSE t

\* The whole loop over the document's children.
RECURSIVE WalkDocument(_, _)
WalkDocument(t, children) ==
    IF children = <<>> THEN t
    ELSE WalkDocument(VisitDocumentChild(t, Head(children)), Tail(children))

-----------------------------------------------------------------------------
(* The return step shared by extract_text and kiro_chat.                   *)

HasNul(s) == \E i \in 1..Len(s) : s[i] = NUL

\* CStringNew that cuts the string at its first NUL instead of failing.
CStringNewTruncated(s) ==
    [ok |-> TRUE,
     str |-> SubSeq(s, 1, Cardinality({i \in 1..Len(s) :
                                          \A j \in 1..i : s[j] # NUL}))]

\* CString::new(s): an error when s has an interior NUL byte.
CStringNew(s) == [ok |-> ~HasNul(s), str |-> s]

FreeCell == [live |-> FALSE, str |-> <<>>]

FreeAddrs == {a \in Addr : ~heap[a].live}

\* return std::ptr::null_mut() at the place named site
ReturnNull(op, site) ==
    /\ ret' = NULL
    /\ last' = [op |-> op, site |-> site, arg |-> NULL]
    /\ pc' = "idle"
    /\ heap' = heap

\* ReturnString with the empty string reported as a failure.
ReturnStringNonEmpty(op, s) ==
    IF CStringNew(s).ok /\ s # <<>>
        THEN \E a \in FreeAddrs :
                /\ heap' = [heap EXCEPT ![a] = [live |-> TRUE, str |-> CStringNew(s).str]]
                /\ ret' = a
                /\ last' = [op |-> op, site |-> "Ok", arg |-> NULL]
                /\ pc' = "idle"
        ELSE ReturnNull(op, "NulError")

\* CString::new(s).map(|s| s.into_raw()).unwrap_or(std::ptr::null_mut())
ReturnString(op, s) ==
    IF CStringNew(s).ok
        THEN \E a \in FreeAddrs :
                /\ heap' = [heap EXCEPT ![a] = [live |-> TRUE, str |-> CStringNew(s).str]]
                /\ ret' = a
                /\ last' = [op |-> op, site |-> "Ok", arg |-> NULL]
                /\ pc' = "idle"
        ELSE ReturnNull(op, "NulError")

-----------------------------------------------------------------------------
(* extract_text, lines 10-49, one action per fallible step.                *)

NoDoc == <<>>

NoOut == [launched |-> FALSE, status |-> 0, stdout |-> <<>>]

CallExtract ==
    /\ pc = "idle"
    /\ FreeAddrs # {}
    /\ pc' = "x_to_str"
    /\ doc' = NoDoc /\ idx' = 0 /\ text' = <<>> /\ out' = NoOut
    /\ last' = [op |-> "extract_text", site |-> "running", arg |-> NULL]
    /\ UNCHANGED <<ret, heap>>

\* c_str.to_str(), lines 11-15
XToStr ==
    /\ pc = "x_to_str"
    /\ \E ok \in BOOLEAN :
          IF ok THEN pc' = "x_open" /\ UNCHANGED <<ret, last, heap>>
                ELSE ReturnNull("extract_text", "Utf8Error")
    /\ UNCHANGED <<doc, idx, text, out>>

\* File::open(path_str), lines 17-20
XOpen ==
    /\ pc = "x_open"
    /\ \E ok \in BOOLEAN :
          IF ok THEN pc' = "x_read" /\ UNCHANGED <<ret, last, heap>>
                ELSE ReturnNull("extract_text", "OpenError")
    /\ UNCHANGED <<doc, idx, text, out>>

\* file.read_to_end(&mut buf), lines 22-25
XRead ==
    /\ pc = "x_read"
    /\ \E ok \in BOOLEAN :
          IF ok THEN pc' = "x_decode" /\ UNCHANGED <<ret, last, heap>>
                ELSE ReturnNull("extract_text", "ReadError")
    /\ UNCHANGED <<doc, idx, text, out>>

\* XDecode with the decode error answered by an empty string.
XDecodeEmptyOnError(D) ==
    /\ pc = "x_decode"
    /\ \/ /\ \E a \in FreeAddrs :
                /\ heap' = [heap EXCEPT ![a] = [live |-> TRUE, str |-> <<>>]]
                /\ ret' = a
          /\ last' = [op |-> "extract_text", site |-> "DocxError", arg |-> NULL]
          /\ pc' = "idle"
          /\ UNCHANGED <<doc, idx, text>>
       \/ \E shape \in D :
             \E f \in [1..Slots(shape) -> RunChildren] :
             /\ doc' = Fill(shape, f, 0)
             /\ idx' = 0
             /\ text' = <<>>
             /\ pc' = "x_walk"
             /\ UNCHANGED <<ret, last, heap>>
    /\ UNCHANGED out

\* read_docx(&buf), lines 27-30, and let mut text = String::new(), line 32:
\* an error, or a document of one of the shapes D with any run children.
XDecode(D) ==
    /\ pc = "x_decode"
    /\ \/ /\ ReturnNull("extract_text", "DocxError")
          /\ UNCHANGED <<doc, idx, text>>
       \/ \E shape \in D :
             \E f \in [1..Slots(shape) -> RunChildren] :
             /\ doc' = Fill(shape, f, 0)
             /\ idx' = 0
             /\ text' = <<>>
             /\ pc' = "x_walk"
             /\ UNCHANGED <<ret, last, heap>>
    /\ UNCHANGED out

\* one document child, lines 33-46
XVisit ==
    /\ pc = "x_walk"
    /\ idx < Len(doc)
    /\ text' = VisitDocumentChild(text, doc[idx + 1])
    /\ idx' = idx + 1
    /\ UNCHANGED <<pc, doc, out, ret, last, heap>>

\* line 48
XReturn ==
    /\ pc = "x_walk"
    /\ idx = Len(doc)
    /\ ReturnString("extract_text", text)
    /\ UNCHANGED <<doc, idx, text, out>>

-----------------------------------------------------------------------------
(* strip_ansi, lines 84-101.                                               *)

\* The inner loop, lines 91-94: the position after the first ASCII
\* alphabetic character at or after j, or after the end of s.
RECURSIVE SkipSequence(_, _)
SkipSequence(s, j) ==
    IF j > Len(s) THEN j
    ELSE IF IsAsciiAlphabetic(s[j]) THEN j + 1
    ELSE SkipSequence(s, j + 1)

\* The outer loop, lines 87-99, from position i with result so far.
RECURSIVE StripFrom(_, _, _)
StripFrom(s, i, result) ==
    IF i > Len(s) THEN result
    ELSE IF s[i] = ESC
        THEN IF i + 1 <= Len(s) /\ s[i + 1] = "["
                THEN StripFrom(s, SkipSequence(s, i + 2), result)
                ELSE StripFrom(s, i + 1, result)
        ELSE StripFrom(s, i + 1, Append(result, s[i]))

strip_ansi(s) == StripFrom(s, 1, <<>>)

-----------------------------------------------------------------------------
(* kiro_chat, lines 61-82.                                                 *)

OutBytes == {ESC, "[", "1", "m", NUL, BAD}

\* The standard outputs of the external process, up to MaxOutLen bytes.
Outputs == UNION {[1..n -> OutBytes] : n \in 0..MaxOutLen}

\* The standard outputs of the call sequences of Spec.
SomeOutputs == {<<>>, <<"m">>, <<ESC, "[", "m">>}

\* String::from_utf8_lossy(&out.stdout), line 76
from_utf8_lossy(bytes) ==
    [i \in 1..Len(bytes) |-> IF bytes[i] = BAD THEN REPLACEMENT ELSE bytes[i]]

CallChat ==
    /\ pc = "idle"
    /\ FreeAddrs # {}
    /\ pc' = "k_to_str"
    /\ doc' = NoDoc /\ idx' = 0 /\ text' = <<>> /\ out' = NoOut
    /\ last' = [op |-> "kiro_chat", site |-> "running", arg |-> NULL]
    /\ UNCHANGED <<ret, heap>>

\* c_str.to_str(), lines 62-66
KToStr ==
    /\ pc = "k_to_str"
    /\ \E ok \in BOOLEAN :
          IF ok THEN pc' = "k_output" /\ UNCHANGED <<ret, last, heap>>
                ELSE ReturnNull("kiro_chat", "Utf8Error")
    /\ UNCHANGED <<doc, idx, text, out>>

\* Command::new("kiro-cli")...output(), lines 68-72: the process could not
\* be run, or it ran and ended with an exit status and its standard output.
KOutput(S) ==
    /\ pc = "k_output"
    /\ \/ out' = NoOut
       \/ \E st \in {0, 1}, b \in S :
             out' = [launched |-> TRUE, status |-> st, stdout |-> b]
    /\ pc' = "k_match"
    /\ UNCHANGED <<doc, idx, text, ret, last, heap>>

\* match output, lines 74-81
KMatch ==
    /\ pc = "k_match"
    /\ IF out.launched
          THEN /\ text' = strip_ansi(from_utf8_lossy(out.stdout))
               /\ ReturnString("kiro_chat", text')
          ELSE /\ text' = text
               /\ ReturnNull("kiro_chat", "SpawnError")
    /\ UNCHANGED <<doc, idx, out>>

-----------------------------------------------------------------------------
(* free_string, lines 52-56.  The caller passes NULL or a string it was    *)
(* given and has not released; any other pointer is outside the contract   *)
(* of CString::from_raw.                                                   *)

\* FreeString that releases every string when given one.
FreeStringAll(s) ==
    /\ pc = "idle"
    /\ IF s # NULL
          THEN heap' = [a \in Addr |-> [live |-> FALSE, str |-> <<>>]]
          ELSE heap' = heap
    /\ last' = [op |-> "free_string", site |-> "Ok", arg |-> s]
    /\ UNCHANGED <<pc, doc, idx, text, out, ret>>

FreeString(s) ==
    /\ pc = "idle"
    /\ IF s # NULL
          THEN heap' = [heap EXCEPT ![s] = FreeCell]
          ELSE heap' = heap
    /\ last' = [op |-> "free_string", site |-> "Ok", arg |-> s]
    /\ UNCHANGED <<pc, doc, idx, text, out, ret>>

FreeAny ==
    \E s \in {NULL} \cup {a \in Addr : heap[a].live} : FreeString(s)

-----------------------------------------------------------------------------

EmptyHeap == [a \in Addr |-> FreeCell]

Init ==
    /\ pc = "idle"
    /\ doc = NoDoc /\ idx = 0 /\ text = <<>> /\ out = NoOut
    /\ ret = NULL
    /\ last = [op |-> "none", site |-> "none", arg |-> NULL]
    /\ heap = EmptyHeap

\* extract_text has just been entered.
InitExtract ==
    /\ pc = "x_to_str"
    /\ doc = NoDoc /\ idx = 0 /\ text = <<>> /\ out = NoOut
    /\ ret = NULL
    /\ last = [op |-> "extract_text", site |-> "running", arg |-> NULL]
    /\ heap = EmptyHeap

NextExtract ==
    \/ XToStr
    \/ XOpen
    \/ XRead
    \/ XDecode(DocumentShapes)
    \/ XVisit
    \/ XReturn

SpecExtract == InitExtract /\ [][NextExtract]_vars

\* kiro_chat has just been entered.
InitChat ==
    /\ pc = "k_to_str"
    /\ doc = NoDoc /\ idx = 0 /\ text = <<>> /\ out = NoOut
    /\ ret = NULL
    /\ last = [op |-> "kiro_chat", site |-> "running", arg |-> NULL]
    /\ heap = EmptyHeap

NextChat ==
    \/ KToStr
    \/ KOutput(Outputs)
    \/ KMatch

SpecChat == InitChat /\ [][NextChat]_vars

\* Any sequence of calls of the three operations by one caller.
Next ==
    \/ CallExtract
    \/ XToStr
    \/ XOpen
    \/ XRead
    \/ XDecode(SomeDocumentShapes)
    \/ XVisit
    \/ XReturn
    \/ CallChat
    \/ KToStr
    \/ KOutput(SomeOutputs)
    \/ KMatch
    \/ FreeAny

Spec == Init /\ [][Next]_vars

-----------------------------------------------------------------------------
(* The vocabulary of the properties: the text of a document, stated over   *)
(* the tree and not by the traversal.                                      *)

RECURSIVE Concat(_)
Concat(ss) == IF ss = <<>> THEN <<>> ELSE Head(ss) \o Concat(Tail(ss))

Paragraphs(d) == SelectSeq(d, LAMBDA c : c.kind = "Paragraph")

Runs(p) == SelectSeq(p.children, LAMBDA c : c.kind = "Run")

Texts(r) == SelectSeq(r.children, LAMBDA c : c.kind = "Text")

\* The string values of the Text children of a run, joined.
RunText(r) == Concat([i \in 1..Len(Texts(r)) |-> Texts(r)[i].text])

\* The fragments of all runs of a paragraph, joined with nothing between.
ParagraphText(p) == Concat([i \in 1..Len(Runs(p)) |-> RunText(Runs(p)[i])])

\* Every paragraph's text followed by one newline.
DocumentText(d) ==
    Concat([i \in 1..Len(Paragraphs(d)) |-> ParagraphText(Paragraphs(d)[i]) \o <<LF>>])

Occurs(c, s) == \E i \in 1..Len(s) : s[i] = c

Count(c, s) == Cardinality({i \in 1..Len(s) : s[i] = c})

\* s cut at its newlines: the pieces each newline ends, and what follows
\* the last newline when that is not empty.
RECURSIVE SplitLines(_, _, _)
SplitLines(s, cur, acc) ==
    IF s = <<>> THEN (IF cur = <<>> THEN acc ELSE Append(acc, cur))
    ELSE IF Head(s) = LF THEN SplitLines(Tail(s), <<>>, Append(acc, cur))
    ELSE SplitLines(Tail(s), Append(cur, Head(s)), acc)

Lines(s) == SplitLines(s, <<>>, <<>>)

\* The document without the nodes the traversal has no arm for.
PruneRun(r) == [kind |-> "Run", children |-> Texts(r)]

PruneParagraph(p) ==
    [kind |-> "Paragraph",
     children |-> [i \in 1..Len(Runs(p)) |-> PruneRun(Runs(p)[i])]]

Prune(d) == [i \in 1..Len(Paragraphs(d)) |-> PruneParagraph(Paragraphs(d)[i])]

HasSkippedNodes(d) ==
    /\ \E i \in 1..Len(d) : d[i].kind = "Table"
    /\ \E i \in 1..Len(d) :
          /\ d[i].kind = "Paragraph"
          /\ \E j \in 1..Len(d[i].children) : d[i].children[j].kind = "BookmarkStart"
          /\ \E j \in 1..Len(d[i].children) :
                /\ d[i].children[j].kind = "Run"
                /\ \E k \in 1..Len(d[i].children[j].children) :
                      d[i].children[j].children[k].kind = "Break"

\* extract_text has returned after read_docx gave a document.
Decoded ==
    /\ pc = "idle"
    /\ last.op = "extract_text"
    /\ last.site \in {"Ok", "NulError"}

\* extract_text has returned from one of its four early returns.
ExtractFailed ==
    /\ pc = "idle"
    /\ last.op = "extract_text"
    /\ last.site \in {"Utf8Error", "OpenError", "ReadError", "DocxError"}

\* The call returned a string the caller now owns, and Returned(s) says
\* which.
ReturnedString == ret # NULL /\ heap[ret].live

Returned(s) == ReturnedString /\ heap[ret].str = s

-----------------------------------------------------------------------------
(* extract_text                                                            *)

\* C1 as stated: for every decoded document extract_text returns the
\* paragraphs' texts in declared order, the fragments of each joined with
\* no separator and followed by one newline.
C1_AsStated == Decoded => Returned(DocumentText(doc))

\* C1, amended: for every decoded document extract_text returns that
\* string when it holds no NUL character, and the failure indicator when
\* it holds one.
C1_ExtractedText ==
    Decoded =>
        IF Occurs(NUL, DocumentText(doc))
            THEN ret = NULL
            ELSE Returned(DocumentText(doc))

\* C1: [Paragraph[Run "a", Run "b"], Paragraph[]] has given "ab\n\n".
C1_Witness ==
    /\ Decoded
    /\ Len(doc) = 2
    /\ doc[1].kind = "Paragraph" /\ Len(Runs(doc[1])) = 2
    /\ doc[2].kind = "Paragraph" /\ doc[2].children = <<>>
    /\ Returned(<<"a", "b", LF, LF>>)

AllParagraphsHaveText(d) ==
    \A i \in 1..Len(Paragraphs(d)) : ParagraphText(Paragraphs(d)[i]) # <<>>

NoControlInText(d) ==
    \A i \in 1..Len(Paragraphs(d)) :
        /\ ~Occurs(LF, ParagraphText(Paragraphs(d)[i]))
        /\ ~Occurs(NUL, ParagraphText(Paragraphs(d)[i]))

LinesMirrorParagraphs(d) ==
    /\ ReturnedString
    /\ Count(LF, heap[ret].str) = Len(Paragraphs(d))
    /\ Lines(heap[ret].str) =
          [i \in 1..Len(Paragraphs(d)) |-> ParagraphText(Paragraphs(d)[i])]

\* C2 as stated: for a document of N paragraphs each containing text, the
\* returned string has exactly N newlines and its lines are the
\* paragraphs' texts in order.
C2_AsStated ==
    (Decoded /\ AllParagraphsHaveText(doc)) => LinesMirrorParagraphs(doc)

\* C2, amended: the same, for documents whose text fragments hold neither
\* a newline nor a NUL character.
C2_NewlinePerParagraph ==
    (Decoded /\ AllParagraphsHaveText(doc) /\ NoControlInText(doc))
        => LinesMirrorParagraphs(doc)

\* C2: two paragraphs with plain text have been extracted.
C2_Witness ==
    /\ Decoded
    /\ Len(Paragraphs(doc)) = 2
    /\ AllParagraphsHaveText(doc)
    /\ NoControlInText(doc)
    /\ Lines(heap[ret].str) = <<<<"a">>, <<"b">>>>

\* C3: every step of the traversal that visits a Paragraph appends the
\* paragraph's fragments and then exactly one newline, also when the
\* paragraph has no run or no text.
C3_OneNewlinePerParagraph ==
    [][(/\ pc = "x_walk"
        /\ idx < Len(doc)
        /\ idx' = idx + 1
        /\ doc[idx + 1].kind = "Paragraph")
          => text' = text \o ParagraphText(doc[idx + 1]) \o <<LF>>]_vars

\* C3: a paragraph without children has just been visited, after one with
\* text, and left an empty line.
C3_Witness ==
    /\ pc = "x_walk"
    /\ idx = 2
    /\ doc[1].kind = "Paragraph"
    /\ doc[2].kind = "Paragraph" /\ doc[2].children = <<>>
    /\ text = <<"a", LF, LF>>

\* C4: a document without paragraphs gives the empty string, returned as
\* a string and not as the failure indicator.
C4_EmptyDocument ==
    (Decoded /\ Paragraphs(doc) = <<>>) => Returned(<<>>)

\* C4: a document whose only child is a table has given the empty string.
C4_Witness ==
    /\ Decoded
    /\ Len(doc) = 1 /\ doc[1].kind = "Table"
    /\ Returned(<<>>)

\* C5: the result for a document is the result for the document without
\* its non-Paragraph, non-Run and non-Text nodes, and fails only where
\* that one fails.
C5_SkippedNodes ==
    Decoded =>
        LET pruned == CStringNew(WalkDocument(<<>>, Prune(doc)))
        IN  IF pruned.ok THEN Returned(pruned.str) ELSE ret = NULL

\* C5: a document with a table, a bookmark and a break among its nodes
\* has been extracted to a string.
C5_Witness ==
    /\ Decoded
    /\ HasSkippedNodes(doc)
    /\ Returned(<<"a", LF>>)

\* C6: after an early return (path not valid text, open, read or decode
\* failed) the result is the failure indicator and no string was made.
C6_FailureIsNull ==
    ExtractFailed => (ret = NULL /\ \A a \in Addr : ~heap[a].live)

\* C6: read_docx has failed.
C6_Witness == ExtractFailed /\ last.site = "DocxError" /\ ret = NULL

\* C7 as stated: once reading and decoding succeeded a string is
\* returned, whatever the text fragments contain.
C7_AsStated == Decoded => ReturnedString

\* C7, amended: once reading and decoding succeeded, a string is returned
\* unless a text fragment of a run of a paragraph holds a NUL character,
\* and then the failure indicator is returned.
C7_FailsOnlyOnNul ==
    Decoded =>
        IF \E i \in 1..Len(Paragraphs(doc)) :
                Occurs(NUL, ParagraphText(Paragraphs(doc)[i]))
            THEN ret = NULL /\ last.site = "NulError"
            ELSE ReturnedString /\ last.site = "Ok"

\* C7: a decoded document with a NUL in its text has given the failure
\* indicator.
C7_Witness ==
    /\ Decoded
    /\ Len(doc) = 2
    /\ Occurs(NUL, DocumentText(doc))
    /\ ret = NULL

-----------------------------------------------------------------------------
(* kiro_chat and strip_ansi                                                *)

\* kiro_chat has returned after the attempt to run the process.
ChatDone ==
    /\ pc = "idle"
    /\ last.op = "kiro_chat"
    /\ last.site \in {"SpawnError", "Ok", "NulError"}

\* C8: kiro_chat returns the failure indicator when the process could not
\* be launched or failed, and otherwise its standard output with the ANSI
\* escape sequences stripped.
C8_ChatContract ==
    ChatDone =>
        IF ~out.launched \/ out.status # 0
            THEN ret = NULL
            ELSE Returned(strip_ansi(from_utf8_lossy(out.stdout)))

\* The characters that end a two-character escape sequence ESC x.
SequenceFinals == {"1", "m"}

\* s from position i on without its escape sequences: ESC [ through the
\* first ASCII alphabetic character, ESC x for a final x, and a lone ESC.
RECURSIVE WithoutSequences(_, _)
WithoutSequences(s, i) ==
    IF i > Len(s) THEN <<>>
    ELSE IF s[i] # ESC THEN <<s[i]>> \o WithoutSequences(s, i + 1)
    ELSE IF i + 1 > Len(s) THEN <<>>
    ELSE IF s[i + 1] = "["
        THEN LET rest == {j \in (i + 2)..Len(s) : s[j] \in AsciiAlphabetic}
             IN  IF rest = {} THEN <<>>
                 ELSE WithoutSequences(
                        s, 1 + CHOOSE j \in rest : \A k \in rest : j <= k)
    ELSE IF s[i + 1] \in SequenceFinals THEN WithoutSequences(s, i + 2)
    ELSE WithoutSequences(s, i + 1)

\* C9: strip_ansi returns its input with every escape sequence removed:
\* no ESC and no remnant of a sequence is left, and every other character
\* is kept in order.
C9_StripAnsi ==
    (ChatDone /\ out.launched) =>
        /\ ~Occurs(ESC, text)
        /\ text = WithoutSequences(from_utf8_lossy(out.stdout), 1)

-----------------------------------------------------------------------------
(* free_string                                                             *)

\* C10: in any sequence of calls, free_string of a string returned and
\* not yet released releases that string and leaves every other one as it
\* is, and free_string of NULL changes nothing.
C10_FreeString ==
    [][\A s \in Ptr :
        (/\ pc = "idle" /\ pc' = "idle"
         /\ last' # last
         /\ last'.op = "free_string" /\ last'.arg = s)
          => IF s = NULL
                THEN heap' = heap
                ELSE /\ heap[s].live
                     /\ ~heap'[s].live
                     /\ \A a \in Addr \ {s} : heap'[a] = heap[a]]_vars

\* C10: one of two live strings has been released and the other is still
\* there.
C10_Witness ==
    /\ pc = "idle"
    /\ last.op = "free_string"
    /\ last.arg # NULL
    /\ ~heap[last.arg].live
    /\ \E a \in Addr : heap[a].live /\ heap[a].str = <<"a", LF>>

====
